---------------------------- MODULE Spec2Model ----------------------------
(***************************************************************************)
(* A model of air_quality_plotting.py, the Streamlit dashboard script.     *)
(*                                                                         *)
(* Streamlit re-executes the whole script, top to bottom, on every user    *)
(* interaction.  What survives from one pass to the next is                *)
(*   - the st.cache_data memo of load_data()            (cached, cache),   *)
(*   - st.session_state                                 (session_state),   *)
(*   - the values the widgets hold                      (widget_state).    *)
(* Every other variable below is a module-level name of the script as the  *)
(* last pass left it.                                                      *)
(*                                                                         *)
(* Calendar dates are day numbers 1..MaxDate; pm25 readings are whole      *)
(* numbers 0..MaxPm25 (the slider moves in steps of 1.0).                  *)
(***************************************************************************)
EXTENDS Integers, Sequences, FiniteSets

\* ------------------------------------------------------------------ bounds
MaxRecords == 2      \* rows in the CSV file
MaxDate == 3         \* latest calendar day a row can carry
MaxPm25 == 2         \* largest pm25 reading a row can carry
MaxAqi == 320        \* largest score handed to the classifier on its own

\* ------------------------------------------------------- program constants
NaT == -1            \* pd.NaT: what errors='coerce' leaves for a bad date
NaN == -1            \* a missing pm25 reading
AqiNA == -1          \* the 'N/A' cell of the aqi_overall column
CurrentDate == 2     \* pd.to_datetime('2025-12-07').date()

VARIABLES
    file_exists,        \* whether the CSV is on disk
    file,               \* its rows, as read by pd.read_csv
    cached,             \* st.cache_data holds a result for load_data()
    cache,              \* that result
    loads,              \* how many times load_data's body ran to its return
    session_state,      \* st.session_state: key -> value
    widget_state,       \* the widgets' stored values: widget -> value
    outcome,            \* "init", or how the last pass ended
    df,
    df_filtered,
    show_current_only,
    min_date_filtered,
    max_date_filtered,
    dates_disabled,
    from_date,
    to_date,
    date_range_changed,
    city_names,
    selected_city,
    pm25_range,
    view,               \* what the last pass put on the page
    aqi,                \* classifier harness: the score classified last
    classified          \* classifier harness: aqi_category(aqi)

vars == <<file_exists, file, cached, cache, loads, session_state, widget_state,
          outcome, df, df_filtered, show_current_only, min_date_filtered,
          max_date_filtered, dates_disabled, from_date, to_date,
          date_range_changed, city_names, selected_city, pm25_range, view,
          aqi, classified>>

\* --------------------------------------------------------------- classifier

\* A '<' at the first breakpoint instead of '<='.
aqi_category_strict50(a) ==
    IF a < 50 THEN <<"Good", "#009966">>
    ELSE IF a <= 100 THEN <<"Moderate", "#ffde33">>
    ELSE IF a <= 150 THEN <<"Unhealthy for Sensitive Groups", "#ff9933">>
    ELSE IF a <= 200 THEN <<"Unhealthy", "#cc0033">>
    ELSE IF a <= 300 THEN <<"Very Unhealthy", "#660099">>
    ELSE <<"Hazardous", "#7e0023">>

\* aqi = int(aqi) leaves a whole number as it is; then the chain of '<='.
aqi_category(a) ==
    IF a <= 50 THEN <<"Good", "#009966">>
    ELSE IF a <= 100 THEN <<"Moderate", "#ffde33">>
    ELSE IF a <= 150 THEN <<"Unhealthy for Sensitive Groups", "#ff9933">>
    ELSE IF a <= 200 THEN <<"Unhealthy", "#cc0033">>
    ELSE IF a <= 300 THEN <<"Very Unhealthy", "#660099">>
    ELSE <<"Hazardous", "#7e0023">>

category_order ==
    <<"Good", "Moderate", "Unhealthy for Sensitive Groups", "Unhealthy",
      "Very Unhealthy", "Hazardous">>

\* {cat: aqi_category(i * 51)[1] for i, cat in enumerate(category_order)}
color_map ==
    [cat \in {category_order[k] : k \in DOMAIN category_order} |->
        LET i == (CHOOSE k \in DOMAIN category_order : category_order[k] = cat) - 1
        IN  aqi_category(i * 51)[2]]

\* ------------------------------------------------------------------- loader

RecordTypes == {"Current", "Past"}
Cities == <<"Bangkok", "Chiang Mai">>
RawDates == 0..MaxDate                  \* 0: a cell that is not a date
RawPm25 == (0..MaxPm25) \cup {NaN}

\* The aqi_overall cell of a row: 'N/A' in a Past row, the station's score in a
\* Current one.
RawAqi(type, city) ==
    IF type = "Past" THEN AqiNA ELSE IF city = Cities[1] THEN 120 ELSE 310

CsvRows ==
    {[record_type |-> t, record_date |-> d, city_name |-> c, pm25 |-> p,
      aqi_overall |-> RawAqi(t, c)] :
        t \in RecordTypes, d \in RawDates,
        c \in {Cities[k] : k \in DOMAIN Cities}, p \in RawPm25}

\* pd.to_datetime(..., errors='coerce').dt.date
ParseDate(cell) == IF cell >= 1 THEN cell ELSE NaT

\* .replace('N/A', 0).astype(int)
CleanAqi(cell) == IF cell = AqiNA THEN 0 ELSE cell

CleanRow(r) ==
    [record_type  |-> r.record_type,
     record_date  |-> ParseDate(r.record_date),
     city_name    |-> r.city_name,
     pm25         |-> r.pm25,
     aqi_overall  |-> CleanAqi(r.aqi_overall),
     aqi_category |-> aqi_category(CleanAqi(r.aqi_overall))[1],
     color_code   |-> aqi_category(CleanAqi(r.aqi_overall))[2]]

ReadAndClean(rows) == [i \in DOMAIN rows |-> CleanRow(rows[i])]

\* The memo is never consulted.
CacheNever == FALSE

\* @st.cache_data: a second call returns the stored result
CacheHit == cached

load_data ==
    IF CacheHit
    THEN [value |-> cache, loads |-> loads]
    ELSE [value |-> ReadAndClean(file), loads |-> loads + 1]


\* ------------------------------------------------------------ pandas pieces

\* Series.min() / Series.max(): missing values are skipped, and the result is
\* missing when nothing is left.
SeriesMin(S) == IF S = {} THEN NaT ELSE CHOOSE x \in S : \A y \in S : x <= y
SeriesMax(S) == IF S = {} THEN NaT ELSE CHOOSE x \in S : \A y \in S : x >= y

DatesOf(rows) == {rows[i].record_date : i \in DOMAIN rows} \ {NaT}
Pm25Of(rows) == {rows[i].pm25 : i \in DOMAIN rows} \ {NaN}

\* Series.unique().tolist(): the values in order of first appearance
Unique(s) ==
    LET F[i \in 0..Len(s)] ==
            IF i = 0 THEN <<>>
            ELSE IF \E j \in 1..(i - 1) : s[j] = s[i] THEN F[i - 1]
            ELSE Append(F[i - 1], s[i])
    IN  F[Len(s)]

Range(s) == {s[i] : i \in DOMAIN s}

\* ------------------------------------------------------------- filter steps

\* df_filtered = df.copy(); if show_current_only: keep record_type == 'Current'
RecordTypeFilter(rows, show) ==
    LET IsCurrent(r) == r.record_type = "Current"
    IN  IF show THEN SelectSeq(rows, IsCurrent) ELSE rows

\* min/max of the filtered dates, or today for both when there is none
DateDefaults(rows, today) ==
    LET mn == SeriesMin(DatesOf(rows))
        mx == SeriesMax(DatesOf(rows))
    IN  IF mn = NaT
        THEN [min |-> today, max |-> today, warning |-> TRUE]
        ELSE [min |-> mn, max |-> mx, warning |-> FALSE]

\* The dates are stored on every pass.
StoreInitialDatesAlways(ss, mn, mx) ==
    [k \in DOMAIN ss \cup {"initial_min_date", "initial_max_date"} |->
        IF k = "initial_min_date" THEN mn
        ELSE IF k = "initial_max_date" THEN mx
        ELSE ss[k]]

\* if 'initial_min_date' not in st.session_state: ... (and initial_max_date)
StoreInitialDates(ss, mn, mx) ==
    [k \in DOMAIN ss \cup {"initial_min_date", "initial_max_date"} |->
        IF k \in DOMAIN ss THEN ss[k]
        ELSE IF k = "initial_min_date" THEN mn
        ELSE mx]

\* The inverted pair is used as it stands.
DateFilterNoSwap(rows, show, from, to) ==
    LET OnCurrentDate(r) == r.record_date = CurrentDate
        InRange(r) == /\ r.record_date # NaT
                      /\ r.record_date >= from
                      /\ r.record_date <= to
    IN  IF rows = <<>> THEN rows
        ELSE IF show THEN SelectSeq(rows, OnCurrentDate)
        ELSE SelectSeq(rows, InRange)

\* The slider's dates decide in 'Current' mode too.
DateFilterRangeOnly(rows, show, from, to) ==
    LET start_date == IF from > to THEN to ELSE from
        end_date == IF from > to THEN from ELSE to
        InRange(r) == /\ r.record_date # NaT
                      /\ r.record_date >= start_date
                      /\ r.record_date <= end_date
    IN  IF rows = <<>> THEN rows ELSE SelectSeq(rows, InRange)

\* if not df_filtered.empty: 'Current' keeps 2025-12-07 only; otherwise the
\* inclusive range, swapped when inverted.  A missing date compares False.
DateFilter(rows, show, from, to) ==
    LET start_date == IF from > to THEN to ELSE from
        end_date == IF from > to THEN from ELSE to
        OnCurrentDate(r) == r.record_date = CurrentDate
        InRange(r) == /\ r.record_date # NaT
                      /\ r.record_date >= start_date
                      /\ r.record_date <= end_date
    IN  IF rows = <<>> THEN rows
        ELSE IF show THEN SelectSeq(rows, OnCurrentDate)
        ELSE SelectSeq(rows, InRange)

\* ['All Stations'] + df_filtered['city_name'].unique().tolist()
CityNames(rows) ==
    <<"All Stations">> \o Unique([i \in DOMAIN rows |-> rows[i].city_name])

\* if selected_city != 'All Stations': keep city_name == selected_city
CityFilter(rows, city) ==
    LET InCity(r) == r.city_name = city
    IN  IF city # "All Stations" THEN SelectSeq(rows, InCity) ELSE rows

\* The first row is lost with the old index.
Pm25FilterDropFirst(rows, lo, hi) ==
    LET InRange(r) == r.pm25 # NaN /\ r.pm25 >= lo /\ r.pm25 <= hi
        kept == SelectSeq(rows, InRange)
    IN  IF kept = <<>> THEN kept ELSE Tail(kept)

\* pm25 >= pm25_min_threshold and pm25 <= pm25_max_threshold, then
\* reset_index(drop=True).  A missing reading compares False.
Pm25Filter(rows, lo, hi) ==
    LET InRange(r) == r.pm25 # NaN /\ r.pm25 >= lo /\ r.pm25 <= hi
    IN  SelectSeq(rows, InRange)

\* The whole chain, as the script applies it to the loaded records.
FilterChain(rows, show, from, to, city, range) ==
    Pm25Filter(
        CityFilter(
            DateFilter(RecordTypeFilter(rows, show), show, from, to),
            city),
        range[1], range[2])

\* ------------------------------------------------------------------ widgets

NoWidgets == [k \in {} |-> 0]

SetWidget(ws, key, v) ==
    [k \in DOMAIN ws \cup {key} |-> IF k = key THEN v ELSE ws[k]]

\* st.sidebar.checkbox(..., value=False)
CheckBox(ws) ==
    IF "show_current_only" \in DOMAIN ws THEN ws["show_current_only"] ELSE FALSE

\* st.date_input checks its arguments on every call and raises
\* StreamlitAPIException when value lies outside [min_value, max_value].
DateInputRaises(value, min_value, max_value) ==
    value < min_value \/ value > max_value

\* st.sidebar.date_input(value=..., key=...): the stored value, or the default
\* when the widget is new.  Whether a changed default makes the widget a new
\* one depends on the Streamlit release: either (rebuild).
DateInput(ws, key, value, previous_value, rebuild) ==
    IF key \in DOMAIN ws /\ ~(rebuild /\ value # previous_value)
    THEN ws[key]
    ELSE value

\* st.sidebar.selectbox(label, city_names): the stored choice while it is still
\* an option; a changed option list may make the widget a new one (rebuild).
SelectBox(ws, options, previous_options, rebuild) ==
    IF /\ "selected_city" \in DOMAIN ws
       /\ ws["selected_city"] \in Range(options)
       /\ ~(rebuild /\ options # previous_options)
    THEN ws["selected_city"]
    ELSE options[1]

\* The default upper handle sits on the smallest reading.
SliderFromMin(ws, lowest, highest) ==
    IF "pm25_range" \in DOMAIN ws THEN ws["pm25_range"] ELSE <<0, lowest>>

\* st.sidebar.slider(min_value=0.0, max_value=pm25_max_overall,
\*                   value=(0.0, pm25_max_overall), step=1.0)
\* pm25_min_overall is computed by the script and not used.
Slider(ws, pm25_min_overall, pm25_max_overall) ==
    IF "pm25_range" \in DOMAIN ws THEN ws["pm25_range"] ELSE <<0, pm25_max_overall>>

\* ------------------------------------------------------------- presentation

\* max_aqi, and the first station that has it (.iloc[0])
Summary(rows) ==
    LET max_aqi == SeriesMax({rows[i].aqi_overall : i \in DOMAIN rows})
        first == CHOOSE i \in DOMAIN rows :
                    /\ rows[i].aqi_overall = max_aqi
                    /\ \A j \in 1..(i - 1) : rows[j].aqi_overall # max_aqi
    IN  [max_aqi |-> max_aqi,
         worst_station |-> rows[first].city_name,
         records_shown |-> Len(rows)]

\* What sections 4, 5 and 6 of the script put on the page for df_filtered.
Page(rows, total, no_data_warning, swap_error) ==
    [exception       |-> FALSE,
     no_data_warning |-> no_data_warning,
     swap_error      |-> swap_error,
     metrics         |-> IF rows # <<>> THEN <<Summary(rows)>> ELSE <<>>,
     map             |-> IF rows # <<>> THEN "chart" ELSE "no stations match",
     legend          |-> IF rows # <<>> THEN <<color_map>> ELSE <<>>,
     caption         |-> <<Len(rows), total>>,
     table           |-> rows # <<>>]

\* The page of a pass that ended before section 4.
BrokenPage(no_data_warning) ==
    [exception       |-> TRUE,
     no_data_warning |-> no_data_warning,
     swap_error      |-> FALSE,
     metrics         |-> <<>>,
     map             |-> "none",
     legend          |-> <<>>,
     caption         |-> <<>>,
     table           |-> FALSE]

\* --------------------------------------------------------- one script pass

\* load_data() fails: st.error(...), st.stop().  Nothing is cached.
StoppedPass ==
    [outcome |-> "stopped", cached |-> cached, cache |-> cache, loads |-> loads,
     session_state |-> session_state, widget_state |-> NoWidgets,
     df |-> <<>>, df_filtered |-> <<>>, show_current_only |-> FALSE,
     min_date_filtered |-> NaT, max_date_filtered |-> NaT,
     dates_disabled |-> TRUE, from_date |-> NaT, to_date |-> NaT,
     date_range_changed |-> FALSE, city_names |-> <<>>, selected_city |-> "",
     pm25_range |-> <<>>, view |-> BrokenPage(FALSE)]

\* The script from its first line to its last, with the widgets holding ws.
ScriptPass(ws, today, rebuild) ==
    IF ~file_exists THEN StoppedPass
    ELSE
    LET ld == load_data
        df_1 == ld.value
        show == CheckBox(ws)
        typed == RecordTypeFilter(df_1, show)
        min_date_overall == SeriesMin(DatesOf(df_1))
        max_date_overall == SeriesMax(DatesOf(df_1))
        dd == DateDefaults(typed, today)
        ss == StoreInitialDates(session_state, dd.min, dd.max)
        disabled == typed = <<>> \/ show
    IN  IF \/ DateInputRaises(dd.min, min_date_overall, max_date_overall)
           \/ DateInputRaises(dd.max, min_date_overall, max_date_overall)
        THEN \* the exception ends the pass at the date picker
             [outcome |-> "raised", cached |-> TRUE, cache |-> df_1,
              loads |-> ld.loads, session_state |-> ss,
              widget_state |-> SetWidget(NoWidgets, "show_current_only", show),
              df |-> df_1, df_filtered |-> typed, show_current_only |-> show,
              min_date_filtered |-> dd.min, max_date_filtered |-> dd.max,
              dates_disabled |-> disabled, from_date |-> NaT, to_date |-> NaT,
              date_range_changed |-> FALSE, city_names |-> <<>>,
              selected_city |-> "", pm25_range |-> <<>>,
              view |-> BrokenPage(dd.warning)]
        ELSE
        LET from == DateInput(ws, "from_date_input", dd.min, min_date_filtered, rebuild)
            to == DateInput(ws, "to_date_input", dd.max, max_date_filtered, rebuild)
            changed == from # ss["initial_min_date"] \/ to # ss["initial_max_date"]
            dated == DateFilter(typed, show, from, to)
            names == CityNames(dated)
            city == SelectBox(ws, names, city_names, rebuild)
            located == CityFilter(dated, city)
            pm25_min_overall == SeriesMin(Pm25Of(df_1))
            pm25_max_overall == SeriesMax(Pm25Of(df_1))
            range == Slider(ws, pm25_min_overall, pm25_max_overall)
            final == Pm25Filter(located, range[1], range[2])
        IN  [outcome |-> "done", cached |-> TRUE, cache |-> df_1,
             loads |-> ld.loads, session_state |-> ss,
             widget_state |->
                [k \in {"show_current_only", "from_date_input", "to_date_input",
                        "selected_city", "pm25_range"} |->
                    CASE k = "show_current_only" -> show
                      [] k = "from_date_input" -> from
                      [] k = "to_date_input" -> to
                      [] k = "selected_city" -> city
                      [] OTHER -> range],
             df |-> df_1, df_filtered |-> final, show_current_only |-> show,
             min_date_filtered |-> dd.min, max_date_filtered |-> dd.max,
             dates_disabled |-> disabled, from_date |-> from, to_date |-> to,
             date_range_changed |-> changed, city_names |-> names,
             selected_city |-> city, pm25_range |-> range,
             view |-> Page(final, Len(df_1), dd.warning,
                           typed # <<>> /\ ~show /\ from > to)]

\* The state a pass leaves behind.
Run(ws, today, rebuild) ==
    \E p \in {ScriptPass(ws, today, rebuild)} :
        /\ outcome' = p.outcome
        /\ cached' = p.cached
        /\ cache' = p.cache
        /\ loads' = p.loads
        /\ session_state' = p.session_state
        /\ widget_state' = p.widget_state
        /\ df' = p.df
        /\ df_filtered' = p.df_filtered
        /\ show_current_only' = p.show_current_only
        /\ min_date_filtered' = p.min_date_filtered
        /\ max_date_filtered' = p.max_date_filtered
        /\ dates_disabled' = p.dates_disabled
        /\ from_date' = p.from_date
        /\ to_date' = p.to_date
        /\ date_range_changed' = p.date_range_changed
        /\ city_names' = p.city_names
        /\ selected_city' = p.selected_city
        /\ pm25_range' = p.pm25_range
        /\ view' = p.view
        /\ UNCHANGED <<file_exists, file, aqi, classified>>

\* ------------------------------------------------------------------ session

\* The day pd.to_datetime('today') gives: the day the file is of, or a day
\* after every row of it.
Todays == {CurrentDate, MaxDate + 1}

\* The files the dashboard is started on: the sidebar needs one dated row for
\* the pickers' limits and one pm25 reading for the slider's.  Station names
\* are interchangeable, so the first row is of the first station.
Files ==
    {f \in UNION {[1..n -> CsvRows] : n \in 1..MaxRecords} :
        /\ f[1].city_name = Cities[1]
        /\ \E i \in DOMAIN f : f[i].record_date >= 1
        /\ \E i \in DOMAIN f : f[i].pm25 # NaN}

Init ==
    /\ \/ file_exists = TRUE /\ file \in Files
       \/ file_exists = FALSE /\ file = <<>>
    /\ cached = FALSE
    /\ cache = <<>>
    /\ loads = 0
    /\ session_state = NoWidgets
    /\ widget_state = NoWidgets
    /\ outcome = "init"
    /\ df = <<>>
    /\ df_filtered = <<>>
    /\ show_current_only = FALSE
    /\ min_date_filtered = NaT
    /\ max_date_filtered = NaT
    /\ dates_disabled = TRUE
    /\ from_date = NaT
    /\ to_date = NaT
    /\ date_range_changed = FALSE
    /\ city_names = <<>>
    /\ selected_city = ""
    /\ pm25_range = <<>>
    /\ view = BrokenPage(FALSE)
    /\ aqi = 0
    /\ classified = aqi_category(0)

\* The browser opens the page: the first pass of the session.
StartSession ==
    /\ outcome = "init"
    /\ \E today \in Todays : Run(widget_state, today, FALSE)

\* The page is run again with nothing changed.
Rerun ==
    /\ outcome # "init"
    /\ \E today \in Todays, rebuild \in BOOLEAN : Run(widget_state, today, rebuild)

\* The 'Current' checkbox is ticked or cleared.
ToggleCurrent ==
    /\ outcome \in {"done", "raised"}
    /\ \E today \in Todays, rebuild \in BOOLEAN :
          Run(SetWidget(widget_state, "show_current_only", ~show_current_only),
              today, rebuild)

\* A day is picked in 'From Date' (offered between the overall limits).
SetFromDate ==
    /\ outcome = "done" /\ ~dates_disabled
    /\ \E d \in SeriesMin(DatesOf(df))..SeriesMax(DatesOf(df)) :
       \E today \in Todays, rebuild \in BOOLEAN :
          Run(SetWidget(widget_state, "from_date_input", d), today, rebuild)

\* A day is picked in 'To Date'.
SetToDate ==
    /\ outcome = "done" /\ ~dates_disabled
    /\ \E d \in SeriesMin(DatesOf(df))..SeriesMax(DatesOf(df)) :
       \E today \in Todays, rebuild \in BOOLEAN :
          Run(SetWidget(widget_state, "to_date_input", d), today, rebuild)

\* A station, or 'All Stations', is chosen from the list the last pass offered.
SelectStation ==
    /\ outcome = "done"
    /\ \E c \in Range(city_names) :
       \E today \in Todays, rebuild \in BOOLEAN :
          Run(SetWidget(widget_state, "selected_city", c), today, rebuild)

\* The two handles of the PM2.5 slider are moved.
SetPm25Range ==
    /\ outcome = "done"
    /\ \E lo \in 0..SeriesMax(Pm25Of(df)) :
       \E hi \in lo..SeriesMax(Pm25Of(df)) :
       \E today \in Todays, rebuild \in BOOLEAN :
          Run(SetWidget(widget_state, "pm25_range", <<lo, hi>>), today, rebuild)

Next ==
    \/ StartSession
    \/ Rerun
    \/ ToggleCurrent
    \/ SetFromDate
    \/ SetToDate
    \/ SelectStation
    \/ SetPm25Range

Spec == Init /\ [][Next]_vars

\* ------------------------------------------------- the classifier on its own

\* aqi_category applied to the scores 0, 1, 2, ... in turn.
InitClassifier ==
    /\ file_exists = FALSE
    /\ file = <<>>
    /\ cached = FALSE
    /\ cache = <<>>
    /\ loads = 0
    /\ session_state = NoWidgets
    /\ widget_state = NoWidgets
    /\ outcome = "init"
    /\ df = <<>>
    /\ df_filtered = <<>>
    /\ show_current_only = FALSE
    /\ min_date_filtered = NaT
    /\ max_date_filtered = NaT
    /\ dates_disabled = TRUE
    /\ from_date = NaT
    /\ to_date = NaT
    /\ date_range_changed = FALSE
    /\ city_names = <<>>
    /\ selected_city = ""
    /\ pm25_range = <<>>
    /\ view = BrokenPage(FALSE)
    /\ aqi = 0
    /\ classified = aqi_category(0)

Classify ==
    /\ aqi < MaxAqi
    /\ aqi' = aqi + 1
    /\ classified' = aqi_category(aqi + 1)
    /\ UNCHANGED <<file_exists, file, cached, cache, loads, session_state,
                   widget_state, outcome, df, df_filtered, show_current_only,
                   min_date_filtered, max_date_filtered, dates_disabled,
                   from_date, to_date, date_range_changed, city_names,
                   selected_city, pm25_range, view>>

NextClassifier == Classify

SpecClassifier == InitClassifier /\ [][NextClassifier]_vars

\* ===================================================================== claims

Completed == outcome = "done"
Loaded == outcome \in {"done", "raised"}

DateLow == IF from_date > to_date THEN to_date ELSE from_date
DateHigh == IF from_date > to_date THEN from_date ELSE to_date

TypeOk(r) == show_current_only => r.record_type = "Current"
StationOk(r) == selected_city # "All Stations" => r.city_name = selected_city
Pm25Ok(r) == r.pm25 # NaN /\ pm25_range[1] <= r.pm25 /\ r.pm25 <= pm25_range[2]
InDateRange(r) ==
    r.record_date # NaT /\ DateLow <= r.record_date /\ r.record_date <= DateHigh

\* The rows of s at the positions in keep, in their order in s.
IsSubSeq(t, s) ==
    \E keep \in SUBSET DOMAIN s :
        LET Kept(i) == Cardinality({j \in keep : j <= i})
        IN  /\ Len(t) = Cardinality(keep)
            /\ \A i \in keep : t[Kept(i)] = s[i]

\* C1, as stated: after a pass, df_filtered holds exactly the rows of df that
\* have the record type (when the toggle is on), a date within the inclusive
\* from/to range, the station (when one is selected) and a pm25 within the
\* slider's range, in their order in df.
C1_AllSuppliedPredicates ==
    Completed =>
        LET Satisfies(r) == TypeOk(r) /\ InDateRange(r) /\ StationOk(r) /\ Pm25Ok(r)
        IN  df_filtered = SelectSeq(df, Satisfies)

\* C1, amended: as above, except that with the 'Current' toggle on the date
\* predicate is record_date = 2025-12-07 and the from/to dates are ignored.
C1_PredicatesWithCurrentDay ==
    Completed =>
        LET DateOk(r) == IF show_current_only
                         THEN r.record_date = CurrentDate
                         ELSE InDateRange(r)
            Satisfies(r) == TypeOk(r) /\ DateOk(r) /\ StationOk(r) /\ Pm25Ok(r)
        IN  df_filtered = SelectSeq(df, Satisfies)

\* C1 witness: the toggle is on and a row outside the from/to range is kept,
\* while another row of the file is dropped.
C1_Witness ==
    /\ Completed /\ show_current_only
    /\ Len(df_filtered) < Len(df)
    /\ \E i \in DOMAIN df_filtered : ~InDateRange(df_filtered[i])

\* C2: the filtered rows are rows of df in df's order, no more of them than df
\* has, and filtering them again with the same inputs gives them back.
C2_SubsetAndIdempotent ==
    Completed =>
        /\ IsSubSeq(df_filtered, df)
        /\ Len(df_filtered) <= Len(df)
        /\ FilterChain(df_filtered, show_current_only, from_date, to_date,
                       selected_city, pm25_range) = df_filtered

\* C2 witness: a pass that kept one row and dropped another.
C2_Witness ==
    Completed /\ df_filtered # <<>> /\ Len(df_filtered) < Len(df)

\* C3: with the from date after the to date, the pass gives what the same
\* inputs with the two dates exchanged give, and rows between the two dates
\* are kept.
C3_InvertedRangeIsSwapped ==
    (Completed /\ from_date > to_date) =>
        /\ df_filtered = FilterChain(df, show_current_only, to_date, from_date,
                                     selected_city, pm25_range)
        /\ ~show_current_only =>
              \A i \in DOMAIN df :
                  (InDateRange(df[i]) /\ StationOk(df[i]) /\ Pm25Ok(df[i]))
                      => df[i] \in Range(df_filtered)

\* C3 witness: an inverted range, reported in the sidebar, with rows kept.
C3_Witness ==
    /\ Completed /\ ~show_current_only /\ from_date > to_date
    /\ view.swap_error /\ df_filtered # <<>>

\* C4: every score from 0 up is given one of the six pairs, the one of its
\* band (upper bounds 50, 100, 150, 200, 300 inclusive, Hazardous above), and
\* no lower score has a more severe label.
C4_BandsAndMonotone ==
    LET Rank(label) == CHOOSE k \in DOMAIN category_order : category_order[k] = label
        Band == IF aqi <= 50 THEN 1 ELSE IF aqi <= 100 THEN 2
                ELSE IF aqi <= 150 THEN 3 ELSE IF aqi <= 200 THEN 4
                ELSE IF aqi <= 300 THEN 5 ELSE 6
        Colors == <<"#009966", "#ffde33", "#ff9933", "#cc0033", "#660099", "#7e0023">>
    IN  /\ classified = <<category_order[Band], Colors[Band]>>
        /\ \A b \in 0..aqi : Rank(aqi_category(b)[1]) <= Rank(classified[1])

\* C4 witness: the first score above the last breakpoint is Hazardous.
C4_Witness == aqi = 301 /\ classified[1] = "Hazardous"

\* C5: a row whose date did not parse is kept by the loader with a missing
\* date, is in no result of a pass whose from/to dates differ from the initial
\* ones, and is in the result (if it passes the other predicates) of a pass
\* whose from/to dates are the initial ones.
C5_NullDateRetainedWithoutBounds ==
    Completed =>
        /\ Len(df) = Len(file)
        /\ \A i \in DOMAIN file :
              file[i].record_date = 0 => df[i].record_date = NaT
        /\ date_range_changed =>
              \A i \in DOMAIN df_filtered : df_filtered[i].record_date # NaT
        /\ (~date_range_changed /\ ~show_current_only) =>
              \A i \in DOMAIN df :
                  (df[i].record_date = NaT /\ StationOk(df[i]) /\ Pm25Ok(df[i]))
                      => df[i] \in Range(df_filtered)

\* C6: a pass whose filters leave no row ends without an exception, shows no
\* maximum-AQI metric, reports 0 records and shows the no-match warning in
\* place of the map.
C6_EmptyResultHandled ==
    (Loaded /\ df_filtered = <<>>) =>
        /\ ~view.exception
        /\ view.metrics = <<>>
        /\ view.caption = <<0, Len(df)>>
        /\ view.map = "no stations match"

\* C7: load_data's body runs at most once, and after every pass df is what
\* that one run returned, whatever the filters did.
C7_LoadedOnceAndImmutable ==
    /\ loads <= 1
    /\ Loaded => (loads = 1 /\ cached /\ df = ReadAndClean(file) /\ cache = df)

\* C7 witness: a later pass (the toggle has been ticked) whose filters dropped
\* a row, with df still whole.
C7_Witness ==
    /\ Completed /\ show_current_only /\ loads = 1
    /\ Len(df_filtered) < Len(df) /\ df = ReadAndClean(file)

\* The first pass of a session, in which every widget has its default.
FirstPass == outcome = "init" /\ outcome' = "done"

C9_LegendMatchesClassifier ==
    (Completed /\ view.map = "chart") =>
        /\ category_order = <<"Good", "Moderate", "Unhealthy for Sensitive Groups",
                              "Unhealthy", "Very Unhealthy", "Hazardous">>
        /\ \A i \in DOMAIN df_filtered :
              view.legend[1][df_filtered[i].aqi_category] = df_filtered[i].color_code

\* C10: the two session keys are written in the first pass only, with that
\* pass's date bounds, and date_range_changed compares the pickers' dates with
\* them in every pass.
C10_InitialDatesWrittenOnce ==
    /\ [][session_state' # session_state => outcome = "init"]_vars
    /\ [][(outcome = "init" /\ outcome' # "stopped") =>
            /\ DOMAIN session_state' = {"initial_min_date", "initial_max_date"}
            /\ session_state'["initial_min_date"] = min_date_filtered'
            /\ session_state'["initial_max_date"] = max_date_filtered']_vars
    /\ [](Completed =>
            date_range_changed =
                (\/ from_date # session_state["initial_min_date"]
                 \/ to_date # session_state["initial_max_date"]))

\* C10 witness: a later pass whose own date bounds differ from the stored
\* ones.
C10_Witness ==
    /\ Completed /\ show_current_only
    /\ min_date_filtered # session_state["initial_min_date"]
    /\ date_range_changed

=============================================================================
